---- MODULE Spec2Model ----
(***************************************************************************)
(* Bouncing ball inside a spinning hexagon: the three variants of the      *)
(* repository (ball.py, ball_game/ball.py, ball_game/main.py).             *)
(* The block breaker of ball_game/1.py is modelled further down, on        *)
(* variables of its own and in whole pixels and milliseconds.              *)
(*                                                                         *)
(* Numbers.  The scripts compute with Python floats.  Here a number is an  *)
(* integer counting ten-thousandths: the integer n stands for n / Scale.   *)
(* Every arithmetic operator rounds its exact result to that grid, as a    *)
(* float operation rounds to the float grid; the program constants         *)
(* (0.5, 0.8, 0.9, 0.98, 0.99, 0.995, 0.02, 0.01) are exact on the grid.   *)
(* Products are formed limb by limb so that no intermediate value leaves   *)
(* 32-bit integer range.                                                   *)
(***************************************************************************)
EXTENDS Integers, Sequences, FiniteSets, TLC

Scale == 100 * 100

Abs(x) == IF x < 0 THEN -x ELSE x

Sgn(x) == IF x < 0 THEN -1 ELSE 1

Max(x, y) == IF x >= y THEN x ELSE y

Min(x, y) == IF x <= y THEN x ELSE y

\* Number of the grid standing for the integer k (Python int -> float).
Num(k) == k * Scale

\* a * b on the grid, rounded to nearest (ties away from zero).
Mul(a, b) ==
    LET x == Abs(a)
        y == Abs(b)
        xh == x \div Scale
        xl == x % Scale
        yh == y \div Scale
        yl == y % Scale
    IN  (Sgn(a) * Sgn(b)) *
        (xh * yh * Scale + xh * yl + xl * yh + (xl * yl + Scale \div 2) \div Scale)

\* Long division: acc holds the digits so far, r the remainder, k digits to go.
RECURSIVE LongDiv(_, _, _, _)
LongDiv(acc, r, y, k) ==
    IF k = 0
    THEN acc + (IF 2 * r >= y THEN 1 ELSE 0)
    ELSE LongDiv(acc * 10 + (r * 10) \div y, (r * 10) % y, y, k - 1)

\* a / b on the grid (b # 0), rounded to nearest.  A divisor above 20000.0
\* is first brought into range together with the dividend.
RECURSIVE Div(_, _)
Div(a, b) ==
    LET x == Abs(a)
        y == Abs(b)
    IN  IF y > 2 * Scale * Scale
        THEN Div(Sgn(a) * ((x + 5) \div 10), Sgn(b) * ((y + 5) \div 10))
        ELSE (Sgn(a) * Sgn(b)) * LongDiv(x \div y, x % y, y, 4)

\* The square of a grid integer as a two-limb number <<hi, lo>> = hi*10^8 + lo.
Sq2(x) ==
    LET xh == x \div Scale
        xl == x % Scale
        m == 2 * xh * xl
        lo0 == (m % Scale) * Scale + xl * xl
        hi0 == xh * xh + m \div Scale
    IN  <<hi0 + lo0 \div (Scale * Scale), lo0 % (Scale * Scale)>>

Add2(p, q) ==
    LET lo0 == p[2] + q[2]
    IN  <<p[1] + q[1] + lo0 \div (Scale * Scale), lo0 % (Scale * Scale)>>

Leq2(p, q) == p[1] < q[1] \/ (p[1] = q[1] /\ p[2] <= q[2])

\* Largest h in lo..hi-1 with h*h <= n (n two-limb), given lo*lo <= n < hi*hi.
RECURSIVE SqrtSearch(_, _, _)
SqrtSearch(lo, hi, n) ==
    IF hi - lo <= 1
    THEN lo
    ELSE LET mid == (lo + hi) \div 2
         IN  IF Leq2(Sq2(mid), n)
             THEN SqrtSearch(mid, hi, n)
             ELSE SqrtSearch(lo, mid, n)

\* math.hypot(x, y): sqrt(x*x + y*y) on the grid, rounded down.
Hypot(x, y) ==
    LET ax == Abs(x)
        ay == Abs(y)
    IN  IF ay = 0 THEN ax
        ELSE IF ax = 0 THEN ay
        ELSE SqrtSearch(Max(ax, ay), ax + ay + 1, Add2(Sq2(ax), Sq2(ay)))

\* Product of two eight-digit fractions (scale 10^8), rounded down.
MulHi(a, b) ==
    LET ah == a \div Scale
        al == a % Scale
        bh == b \div Scale
        bl == b % Scale
    IN  ah * bh + (ah * bl + al * bh + (al * bl) \div Scale) \div Scale

Pi == 31416

\* sin x for 0 <= x <= pi/2: the Taylor polynomial to x^11, evaluated with
\* eight digits and rounded to the grid.
SinQ(x) ==
    LET one == Scale * Scale
        X == x * Scale
        x2 == MulHi(X, X)
        t5 == one - x2 \div 110
        t4 == one - MulHi(x2, t5) \div 72
        t3 == one - MulHi(x2, t4) \div 42
        t2 == one - MulHi(x2, t3) \div 20
        t1 == one - MulHi(x2, t2) \div 6
    IN  (MulHi(X, t1) + Scale \div 2) \div Scale

\* math.sin, math.cos
Sin(a) ==
    LET r == a % (2 * Pi)
    IN  IF r <= Pi \div 2 THEN SinQ(r)
        ELSE IF r <= Pi THEN SinQ(Pi - r)
        ELSE IF r <= Pi + Pi \div 2 THEN -SinQ(r - Pi)
        ELSE -SinQ(2 * Pi - r)

Cos(a) == Sin(a + Pi \div 2)

(***************************************************************************)
(* Vectors: pairs <<x, y>> of grid numbers.                                *)
(***************************************************************************)
vector_add(a, b) == <<a[1] + b[1], a[2] + b[2]>>

vector_sub(a, b) == <<a[1] - b[1], a[2] - b[2]>>

vector_mul(a, scalar) == <<Mul(a[1], scalar), Mul(a[2], scalar)>>

vector_length(v) == Hypot(v[1], v[2])

\* v / |v|, or (0, 0) for the zero vector.  A float quotient is as precise
\* for a short vector as for a long one: a vector shorter than 2.0 is
\* measured a thousand times finer before the division.
vector_normalize(v) ==
    LET k == IF Max(Abs(v[1]), Abs(v[2])) < 2 * Scale THEN 1000 ELSE 1
        w == <<k * v[1], k * v[2]>>
        len_v == vector_length(w)
    IN  IF len_v = 0 THEN <<0, 0>> ELSE <<Div(w[1], len_v), Div(w[2], len_v)>>

perpendicular(v) == <<-v[2], v[1]>>

Dot(a, b) == Mul(a[1], b[1]) + Mul(a[2], b[2])

(***************************************************************************)
(* Program constants (grid numbers unless noted).                          *)
(***************************************************************************)
WIDTH == 800
HEIGHT == 600
BALL_RADIUS == 15
HEX_RADIUS == 250
GRAVITY == 5000
AIR_FRICTION == 9950
RESTITUTION == 8000
ANGULAR_VELOCITY == 200
WALL_FRICTION == 9000
PUSH_EXTRA == 5000
DRAG_COEFF == 9900
FRICTION == 9800
ELASTICITY == 8000
ROTATION_SPEED == 100

\* The three scripts.
Variants == {"ball", "bg_ball", "main"}

(***************************************************************************)
(* Geometry helpers of the scripts.                                        *)
(***************************************************************************)
\* compute_hexagon_vertices / Hexagon.get_vertices: six vertices, vertex i
\* at angle_offset + i * (2*pi/6).
compute_hexagon_vertices(center, radius, angle_offset) ==
    [i \in 1..6 |->
        LET angle == angle_offset + Mul(Num(i - 1), Div(2 * Pi, Num(6)))
        IN  <<center[1] + Mul(radius, Cos(angle)),
              center[2] + Mul(radius, Sin(angle))>>]

\* closest_point_on_segment(p, a, b)
\* The projection onto the whole line: the parameter t is not clamped.
closest_point_on_line(p, a, b) ==
    LET abx == b[1] - a[1]
        aby == b[2] - a[2]
        ab_len_sq == Mul(abx, abx) + Mul(aby, aby)
    IN  IF ab_len_sq = 0
        THEN a
        ELSE LET t == Div(Mul(p[1] - a[1], abx) + Mul(p[2] - a[2], aby), ab_len_sq)
             IN  <<a[1] + Mul(t, abx), a[2] + Mul(t, aby)>>

closest_point_on_segment(p, a, b) ==
    LET abx == b[1] - a[1]
        aby == b[2] - a[2]
        ab_len_sq == Mul(abx, abx) + Mul(aby, aby)
    IN  IF ab_len_sq = 0
        THEN a
        ELSE LET t0 == Div(Mul(p[1] - a[1], abx) + Mul(p[2] - a[2], aby), ab_len_sq)
                 t == Max(0, Min(Num(1), t0))
             IN  <<a[1] + Mul(t, abx), a[2] + Mul(t, aby)>>

\* The degenerate case answering distance 0 instead of the distance to the point.
point_line_distance_zero(point, line_start, line_end) ==
    LET line == vector_sub(line_end, line_start)
    IN  IF vector_length(line) = 0
        THEN <<0, line_start>>
        ELSE LET t0 == Div(Dot(vector_sub(point, line_start), line), Dot(line, line))
                 t == Max(0, Min(Num(1), t0))
                 projection == vector_add(line_start, vector_mul(line, t))
             IN  <<vector_length(vector_sub(point, projection)), projection>>

\* point_line_distance(point, line_start, line_end) of main.py: the pair
\* <<distance, projection>>.
point_line_distance(point, line_start, line_end) ==
    LET line == vector_sub(line_end, line_start)
    IN  IF vector_length(line) = 0
        THEN <<vector_length(vector_sub(point, line_start)), line_start>>
        ELSE LET t0 == Div(Dot(vector_sub(point, line_start), line), Dot(line, line))
                 t == Max(0, Min(Num(1), t0))
                 projection == vector_add(line_start, vector_mul(line, t))
             IN  <<vector_length(vector_sub(point, projection)), projection>>

(***************************************************************************)
(* Collision response against one edge, ball.py and ball_game/ball.py.     *)
(***************************************************************************)
\* The collision test of the edge loop: "if dist < BALL_RADIUS".
\* The test with the comparison inclusive: touching counts as a collision.
Collides_inclusive(dist, radius) == dist <= radius

Collides(dist, radius) == dist < radius

\* The normal without the fallback: vector_normalize gives (0, 0) at dist 0.
collision_normal_no_fallback(dist_vec, dist) == vector_normalize(dist_vec)

\* The collision normal: from the closest point toward the ball, or the
\* fallback (0, -1) when the centre lies on the edge.
collision_normal(dist_vec, dist) ==
    IF dist = 0 THEN <<0, -Num(1)>> ELSE vector_normalize(dist_vec)

\* Velocity of the wall at the contact point due to the rotation about center.
wall_velocity_at(closest, center, omega) ==
    vector_mul(perpendicular(vector_sub(closest, center)), omega)

\* v - 2 (v . n) n
reflect_relative(v_rel, n) ==
    LET v_rel_normal == Dot(v_rel, n)
    IN  <<v_rel[1] - Mul(2 * v_rel_normal, n[1]),
          v_rel[2] - Mul(2 * v_rel_normal, n[2])>>

\* "Apply friction to tangential component": the tangential part of the
\* reflected velocity is replaced by fric times that of v_rel.
apply_wall_friction(v_rel, v_rel_reflected, n, fric) ==
    LET tangent == perpendicular(n)
        v_rel_tangent == Mul(Dot(v_rel, tangent), fric)
        proj == Dot(v_rel_reflected, tangent)
    IN  <<v_rel_reflected[1] + Mul(tangent[1], v_rel_tangent - proj),
          v_rel_reflected[2] + Mul(tangent[2], v_rel_tangent - proj)>>

\* ball.py: new velocity.  RESTITUTION is not used by this script.
velocity_after_ball(vel, n, wall_vel, fric) ==
    LET v_rel == vector_sub(vel, wall_vel)
        v_rel_reflected == reflect_relative(v_rel, n)
        v_rel_after == apply_wall_friction(v_rel, v_rel_reflected, n, fric)
    IN  vector_add(v_rel_after, wall_vel)

\* ball_game/ball.py: new velocity, the reflected velocity scaled by rest.
velocity_after_bg_ball(vel, n, wall_vel, fric, rest) ==
    LET v_rel == vector_sub(vel, wall_vel)
        v_rel_reflected == vector_mul(reflect_relative(v_rel, n), rest)
        v_rel_after == apply_wall_friction(v_rel, v_rel_reflected, n, fric)
    IN  vector_add(v_rel_after, wall_vel)

\* Penetration correction: push along n by penetration + 0.5.
\* The correction without the extra half unit.
push_out_no_extra(pos, n, dist, radius) ==
    vector_add(pos, vector_mul(n, radius - dist))

push_out(pos, n, dist, radius) ==
    LET penetration == radius - dist
    IN  vector_add(pos, vector_mul(n, penetration + PUSH_EXTRA))

\* The endpoints of edge i: "a = hex_vertices[i]; b = hex_vertices[(i + 1) % 6]".
edge_start(verts, i) == verts[i + 1]

edge_end(verts, i) == verts[((i + 1) % 6) + 1]

\* One iteration of the edge loop of ball.py / ball_game/ball.py.
edge_step_ball(scale_rest, pos, vel, a, b, center, omega, fric, rest) ==
    LET closest == closest_point_on_segment(pos, a, b)
        dist_vec == vector_sub(pos, closest)
        dist == vector_length(dist_vec)
    IN  IF Collides(dist, Num(BALL_RADIUS))
        THEN LET n == collision_normal(dist_vec, dist)
                 wall_vel == wall_velocity_at(closest, center, omega)
             IN  [pos |-> push_out(pos, n, dist, Num(BALL_RADIUS)),
                  vel |-> IF scale_rest
                          THEN velocity_after_bg_ball(vel, n, wall_vel, fric, rest)
                          ELSE velocity_after_ball(vel, n, wall_vel, fric),
                  hit |-> TRUE, err |-> FALSE]
        ELSE [pos |-> pos, vel |-> vel, hit |-> FALSE, err |-> FALSE]

(***************************************************************************)
(* Collision response against one edge, ball_game/main.py.                 *)
(***************************************************************************)
\* "normal = perpendicular(edge).normalize()"
\* The edge normal taken the other way round (pointing out of the hexagon).
edge_normal_outward(p1, p2) ==
    vector_normalize(perpendicular(vector_sub(p1, p2)))

edge_normal(p1, p2) == vector_normalize(perpendicular(vector_sub(p2, p1)))

\* "wall_tangent = perpendicular(r_vec).normalize()"
wall_tangent_at(closest_point, center) ==
    vector_normalize(perpendicular(vector_sub(closest_point, center)))

\* "wall_velocity = wall_tangent * hexagon.rotation_speed * r_vec.length()"
main_wall_velocity(closest_point, center, rotation_speed) ==
    vector_mul(vector_mul(wall_tangent_at(closest_point, center), rotation_speed),
               vector_length(vector_sub(closest_point, center)))

\* Lines 153-166: reflection, elasticity, friction along wall_tangent.
velocity_after_main(vel, normal, wall_tangent, wall_velocity, elasticity) ==
    LET relative_vel == vector_sub(vel, wall_velocity)
        dot == Dot(relative_vel, normal)
        reflection == vector_sub(relative_vel, vector_mul(normal, 2 * dot))
        vel1 == vector_mul(vector_add(reflection, wall_velocity), elasticity)
        tangent_component == Dot(vel1, wall_tangent)
    IN  vector_sub(vel1, vector_mul(vector_mul(wall_tangent, Num(1) - FRICTION),
                                    tangent_component))

\* "overlap = ball.radius - distance; ball.pos += normal * overlap"
main_push_out(pos, normal, distance, radius) ==
    LET overlap == radius - distance
    IN  vector_add(pos, vector_mul(normal, overlap))

\* One iteration of the edge loop of handle_collision.  Vector2.normalize
\* raises on a zero-length vector: err.
edge_step_main(pos, vel, p1, p2, center, rotation_speed, elasticity) ==
    LET pld == point_line_distance(pos, p1, p2)
        distance == pld[1]
        closest_point == pld[2]
    IN  IF Collides(distance, Num(BALL_RADIUS))
        THEN IF p1 = p2 \/ closest_point = center
             THEN [pos |-> pos, vel |-> vel, hit |-> TRUE, err |-> TRUE]
             ELSE LET normal == edge_normal(p1, p2)
                      wall_tangent == wall_tangent_at(closest_point, center)
                      wall_velocity ==
                          main_wall_velocity(closest_point, center, rotation_speed)
                  IN  [pos |-> main_push_out(pos, normal, distance, Num(BALL_RADIUS)),
                       vel |-> velocity_after_main(vel, normal, wall_tangent,
                                                   wall_velocity, elasticity),
                       hit |-> TRUE, err |-> FALSE]
        ELSE [pos |-> pos, vel |-> vel, hit |-> FALSE, err |-> FALSE]

\* The edge iteration of the given script.
edge_step(v, pos, vel, a, b, center, omega, fric, rest) ==
    IF v = "main"
    THEN edge_step_main(pos, vel, a, b, center, omega, rest)
    ELSE edge_step_ball(v = "bg_ball", pos, vel, a, b, center, omega, fric, rest)

(***************************************************************************)
(* Free motion.                                                            *)
(***************************************************************************)
\* ball.py / ball_game/ball.py: gravity, then air friction, then position.
\* Free motion with the drag applied before gravity is added.
free_velocity_ball_drag_first(vel, drag) ==
    <<Mul(vel[1], drag), Mul(vel[2], drag) + GRAVITY>>

free_velocity_ball(vel, drag) ==
    <<Mul(vel[1], drag), Mul(vel[2] + GRAVITY, drag)>>

\* Ball.update with gravity added before the drag is applied.
free_velocity_main_gravity_first(vel, grav_on) ==
    LET acc == IF grav_on THEN <<0, GRAVITY>> ELSE <<0, 0>>
    IN  vector_mul(vector_add(vel, acc), DRAG_COEFF)

\* Ball.update of main.py: drag first, then the accumulated force (gravity
\* when enabled; acc is zero on entry and reset on exit).
free_velocity_main(vel, grav_on) ==
    LET acc == IF grav_on THEN <<0, GRAVITY>> ELSE <<0, 0>>
    IN  vector_add(vector_mul(vel, DRAG_COEFF), acc)

free_velocity(v, vel, drag, grav_on) ==
    IF v = "main" THEN free_velocity_main(vel, grav_on)
    ELSE free_velocity_ball(vel, drag)

\* main.py lines 240-244: wrap around the screen.
wrap_screen(pos) ==
    LET x1 == IF pos[1] < 0 THEN Num(WIDTH) ELSE pos[1]
        x2 == IF x1 > Num(WIDTH) THEN 0 ELSE x1
        y1 == IF pos[2] < 0 THEN Num(HEIGHT) ELSE pos[2]
        y2 == IF y1 > Num(HEIGHT) THEN 0 ELSE y1
    IN  <<x2, y2>>

(***************************************************************************)
(* State.                                                                  *)
(***************************************************************************)
VARIABLES
    variant,            \* which script runs
    hex_center,         \* HEX_CENTER / hexagon.center
    angular_velocity,   \* ANGULAR_VELOCITY / hexagon.rotation_speed
    restitution,        \* RESTITUTION / ball.elasticity
    wall_friction,      \* WALL_FRICTION (ball.py, ball_game/ball.py)
    air_friction,       \* AIR_FRICTION (ball.py, ball_game/ball.py)
    gravity_on,         \* gravity_on of main.py; always TRUE in the others
    ball_pos, ball_vel, \* the ball
    hex_angle,          \* hex_angle / hexagon.rotation
    hex_vertices,       \* the vertex list the edge loop of this tick reads
    pc,                 \* position in the loop body
    edge_i,             \* loop variable i of the edge loop
    ticks,              \* completed iterations of the main loop
    crashed,            \* an exception left the loop
    tick_pos, tick_vel, \* history: the ball when the tick began
    free_pos, free_vel, \* history: the ball when the edge loop began
    pre_pos, pre_vel,   \* history: the ball before the latest edge iteration
    did_free,           \* history: free motion ran in this tick
    last_hit,           \* history: the latest edge iteration responded
    hits,               \* history: edge iterations that responded in this loop
    dragging,           \* main.py: the ball is held by the mouse
    offset,             \* main.py: ball position minus mouse position at the grab
    events,             \* input events handled so far: how many, and the latest
    tick_angle,         \* history: the rotation angle when the tick began
    rotated,            \* history: the rotation was advanced in this tick
    call                \* the latest direct call of a function and its result

\* The globals of the block breaker, ball_game/1.py.
VARIABLES
    lives, paused, game_over,
    start_time, final_time, \* milliseconds; final_time is None until the game ends
    high_speed_mode,
    ball_x, ball_y, ball_dx, ball_dy,
    paddle_x,               \* paddle.x; the paddle's other fields never change
    bricks,                 \* the list of bricks, each brick its left top corner
    frames,                 \* iterations of the game's main loop so far
    game_events,            \* events the game has handled: how many, the latest, where
    game_crashed            \* drawing raised an exception

vars == <<variant, hex_center, angular_velocity, restitution, wall_friction,
          air_friction, gravity_on, ball_pos, ball_vel, hex_angle, hex_vertices,
          pc, edge_i, ticks, crashed, tick_pos, tick_vel, free_pos, free_vel,
          pre_pos, pre_vel, did_free, last_hit, hits, dragging, offset, events,
          tick_angle, rotated, call, lives, paused, game_over, start_time,
          final_time, high_speed_mode, ball_x, ball_y, ball_dx, ball_dy, paddle_x,
          bricks, frames, game_events, game_crashed>>

game == <<lives, paused, game_over, start_time, final_time, high_speed_mode,
          ball_x, ball_y, ball_dx, ball_dy, paddle_x, bricks, frames, game_events,
          game_crashed>>

config == <<variant, hex_center, angular_velocity, restitution, wall_friction,
            air_friction, gravity_on>>

(***************************************************************************)
(* The block breaker, ball_game/1.py: constants and helper functions.      *)
(* Lengths are pixels and times milliseconds, both integers as in the      *)
(* script.                                                                 *)
(***************************************************************************)
paddle_width == 100
paddle_height == 15
paddle_speed == 7
paddle_top == HEIGHT - 40
ball_radius == 10
brick_rows == 5
brick_cols == 10
brick_width == WIDTH \div brick_cols
brick_height == 30

\* None, for final_time: no time is negative.
None == -1

\* clock.tick(60): milliseconds from one frame to the next.
FrameMs == 16

\* pygame.time.get_ticks() in frame f.
get_ticks(f) == FrameMs * f

\* create_bricks(): the bricks row by row, each by its left top corner.
create_bricks ==
    [k \in 1..(brick_rows * brick_cols) |->
        LET row == (k - 1) \div brick_cols
            col == (k - 1) % brick_cols
        IN  <<col * brick_width, row * brick_height + 50>>]

\* Rect.collidepoint: right and bottom borders are outside the rectangle.
collidepoint(r, x, y) ==
    /\ r.left <= x /\ x < r.left + r.w
    /\ r.top <= y /\ y < r.top + r.h

\* Rect.colliderect: the rectangles share a pixel.
colliderect(r1, r2) ==
    /\ r1.left < r2.left + r2.w /\ r2.left < r1.left + r1.w
    /\ r1.top < r2.top + r2.h /\ r2.top < r1.top + r1.h

Rect(left, top, w, h) == [left |-> left, top |-> top, w |-> w, h |-> h]

restart_button == Rect(WIDTH \div 2 - 50, HEIGHT \div 2 + 50, 100, 50)

pause_button == Rect(WIDTH - 120, 10, 100, 40)

speed_button == Rect(WIDTH - 120, 60, 100, 40)

paddle_rect(px) == Rect(px, paddle_top, paddle_width, paddle_height)

brick_rect(b) == Rect(b[1], b[2], brick_width - 2, brick_height - 2)

\* ball_rect.collidelist(bricks): the index of the first brick the ball's
\* rectangle collides with, counted from 1, and 0 where the script has -1.
collidelist(x, y, bs) ==
    LET ball_rect == Rect(x - ball_radius, y - ball_radius, ball_radius * 2,
                          ball_radius * 2)
        hit == {i \in 1..Len(bs) : colliderect(ball_rect, brick_rect(bs[i]))}
    IN  IF hit = {} THEN 0 ELSE CHOOSE i \in hit : \A j \in hit : i <= j

\* del bricks[hit_index]
del(bs, i) == SubSeq(bs, 1, i - 1) \o SubSeq(bs, i + 1, Len(bs))

\* The speed as it would be if the high speed mode were ignored.
base_speed_fixed(mode) == 4

base_speed(mode) == IF mode THEN 6 ELSE 4

\* update_ball_speed() for one component of the velocity.
update_ball_speed(d, mode) == IF d > 0 THEN base_speed(mode) ELSE -base_speed(mode)

\* The paddle's x after the keyboard and mouse handling of one frame.
move_paddle(px, keys, mouse_x) ==
    LET k1 == IF keys.left /\ px > 0 THEN px - paddle_speed ELSE px
        k2 == IF keys.right /\ k1 + paddle_width < WIDTH THEN k1 + paddle_speed ELSE k1
        m == mouse_x - paddle_width \div 2
        c1 == IF m < 0 THEN 0 ELSE m
    IN  IF c1 + paddle_width > WIDTH THEN WIDTH - paddle_width ELSE c1

\* The game as the script starts it.
game_start ==
    [lives |-> 3, paused |-> FALSE, game_over |-> FALSE, start_time |-> get_ticks(0),
     final_time |-> None, high_speed_mode |-> FALSE,
     ball_x |-> WIDTH \div 2, ball_y |-> HEIGHT \div 2, ball_dx |-> 4, ball_dy |-> -4,
     paddle_x |-> WIDTH \div 2 - paddle_width \div 2, bricks |-> create_bricks]

\* The globals of the game are as g says, no frame run yet.
GameAt(g) ==
    /\ lives = g.lives
    /\ paused = g.paused
    /\ game_over = g.game_over
    /\ start_time = g.start_time
    /\ final_time = g.final_time
    /\ high_speed_mode = g.high_speed_mode
    /\ ball_x = g.ball_x
    /\ ball_y = g.ball_y
    /\ ball_dx = g.ball_dx
    /\ ball_dy = g.ball_dy
    /\ paddle_x = g.paddle_x
    /\ bricks = g.bricks
    /\ frames = 0
    /\ game_events = [n |-> 0, last |-> "none", at |-> <<0, 0>>]
    /\ game_crashed = FALSE

\* Ticks a run may begin.
MaxTicks == 1

\* Input events a run of main.py may handle.
MaxEvents == 2

\* Frames a run of the block breaker may draw, and events it may handle.
MaxFrames == 8

MaxGameEvents == 2

\* Where pygame.mouse.get_pos() may find the mouse while the ball is held:
\* on the floor line, on a vertex.
MousePositions == {<<4000000, 5160000>>, <<6500000, 3000000>>}

(***************************************************************************)
(* Inputs.  The module-level constants of the scripts are the configuration *)
(* of a run: each script is started with the values of its source and with *)
(* a static boundary (angular velocity 0, no tangential loss).  The ball   *)
(* is placed at the scripts' start positions and at chosen places near the *)
(* boundary, either at the top of a tick or at the top of the edge loop.   *)
(***************************************************************************)
Vec(x, y) == <<Num(x), Num(y)>>

Configs(v) ==
    IF v = "main"
    THEN {[center |-> Vec(400, 300), omega |-> ROTATION_SPEED, rest |-> ELASTICITY,
           fric |-> FRICTION, drag |-> DRAG_COEFF, grav |-> TRUE],
          [center |-> Vec(400, 300), omega |-> 0, rest |-> ELASTICITY,
           fric |-> FRICTION, drag |-> DRAG_COEFF, grav |-> FALSE]}
    ELSE {[center |-> Vec(400, 300), omega |-> ANGULAR_VELOCITY, rest |-> RESTITUTION,
           fric |-> WALL_FRICTION, drag |-> AIR_FRICTION, grav |-> TRUE],
          [center |-> Vec(250, 250), omega |-> 0, rest |-> RESTITUTION,
           fric |-> Num(1), drag |-> AIR_FRICTION, grav |-> TRUE]}

\* Start angles: 0 (floor and ceiling horizontal) and pi/6 (side walls vertical).
StartAngles == {0, 5236}

\* The point at fraction s along edge k of the vertex list, d inside it.
EdgePoint(verts, k, s, d) ==
    LET a == verts[k + 1]
        b == verts[((k + 1) % 6) + 1]
        ab == vector_sub(b, a)
        inward == vector_normalize(perpendicular(ab))
    IN  vector_add(vector_add(a, vector_mul(ab, s)), vector_mul(inward, d))

NearEdges == {1, 4, 5}
NearAlong == {5000, 9000, 10000, 10200}
NearDepth == {-70000, 0, 50000, 149000, 150000}
NearVels == {<<30000, 0>>, <<0, 30000>>, <<0, 0>>, <<200000, 1000>>}

\* Ball states at the top of the edge loop.
LoopStarts(verts) ==
    {[pc |-> "collide", pos |-> EdgePoint(verts, k, s, d), vel |-> w] :
        k \in NearEdges, s \in NearAlong, d \in NearDepth, w \in NearVels}

\* Ball states at the top of a tick: the scripts' own start, the ball at the
\* centre moving right, and the ball falling toward edge 1.
TickStarts(v, c, verts) ==
    {[pc |-> "free",
      pos |-> IF v = "main" THEN c ELSE vector_sub(c, Vec(0, 100)),
      vel |-> IF v = "main" THEN Vec(3, -2) ELSE Vec(5, 0)],
     [pc |-> "free", pos |-> c, vel |-> Vec(5, 0)],
     [pc |-> "free", pos |-> EdgePoint(verts, 1, 5000, 160000), vel |-> Vec(2, 5)]}

\* The state of script v started with configuration cfg, the boundary at
\* angle ang and the ball as st says.
HexagonAt(v, cfg, ang, verts, st) ==
    /\ variant = v
    /\ hex_center = cfg.center
    /\ angular_velocity = cfg.omega
    /\ restitution = cfg.rest
    /\ wall_friction = cfg.fric
    /\ air_friction = cfg.drag
    /\ gravity_on = cfg.grav
    /\ ball_pos = st.pos
    /\ ball_vel = st.vel
    /\ hex_angle = ang
    /\ hex_vertices = verts
    /\ pc = st.pc
    /\ edge_i = 0
    /\ ticks = 0
    /\ crashed = FALSE
    /\ tick_pos = st.pos
    /\ tick_vel = st.vel
    /\ free_pos = st.pos
    /\ free_vel = st.vel
    /\ pre_pos = st.pos
    /\ pre_vel = st.vel
    /\ did_free = FALSE
    /\ last_hit = FALSE
    /\ hits = 0
    /\ dragging = FALSE
    /\ offset = <<0, 0>>
    /\ events = [n |-> 0, last |-> "none"]
    /\ tick_angle = ang
    /\ rotated = FALSE
    /\ call = [op |-> "none"]

\* The same, the block breaker untouched.
InitAt(v, cfg, ang, verts, st) ==
    /\ HexagonAt(v, cfg, ang, verts, st)
    /\ GameAt(game_start)

Init ==
    \E v \in Variants :
      \E cfg \in Configs(v) :
        \E ang \in StartAngles :
          LET verts == compute_hexagon_vertices(cfg.center, Num(HEX_RADIUS), ang)
          IN  \E st \in LoopStarts(verts) \cup TickStarts(v, cfg.center, verts) :
                InitAt(v, cfg, ang, verts, st)

\* States of the spinning-hexagon demo: the one the scripts start in, and
\* those ball.py is in after 25186 .. 25197 iterations of its loop, rounded
\* to the grid, the angle less its whole turns.
DemoStates ==
    {[after |-> 0, pos |-> Vec(400, 200), vel |-> Vec(5, 0), angle |-> 0],
     [after |-> 25186, pos |-> <<2932488, 3463970>>, vel |-> <<427, 96224>>, angle |-> 10652],
     [after |-> 25187, pos |-> <<2932913, 3564688>>, vel |-> <<425, 100717>>, angle |-> 10852],
     [after |-> 25188, pos |-> <<2933336, 3669877>>, vel |-> <<423, 105189>>, angle |-> 11052],
     [after |-> 25189, pos |-> <<2933757, 3779515>>, vel |-> <<421, 109638>>, angle |-> 11252],
     [after |-> 25190, pos |-> <<2934176, 3893579>>, vel |-> <<419, 114065>>, angle |-> 11452],
     [after |-> 25191, pos |-> <<2934593, 4012049>>, vel |-> <<417, 118469>>, angle |-> 11652],
     [after |-> 25192, pos |-> <<2935008, 4134901>>, vel |-> <<415, 122852>>, angle |-> 11852],
     [after |-> 25193, pos |-> <<2935420, 4262113>>, vel |-> <<413, 127213>>, angle |-> 12052],
     [after |-> 25194, pos |-> <<2935831, 4393665>>, vel |-> <<411, 131552>>, angle |-> 12252],
     [after |-> 25195, pos |-> <<2936239, 4529534>>, vel |-> <<409, 135869>>, angle |-> 12452],
     [after |-> 25196, pos |-> <<2936646, 4669699>>, vel |-> <<407, 140165>>, angle |-> 12652],
     [after |-> 25197, pos |-> <<2937050, 4814137>>, vel |-> <<404, 144439>>, angle |-> 12852]}

\* The demo scripts with the constants of the sources, in one of DemoStates.
InitDemo ==
    \E v \in {"ball", "bg_ball"} :
      \E d \in DemoStates :
        LET cfg == [center |-> Vec(400, 300), omega |-> ANGULAR_VELOCITY,
                    rest |-> RESTITUTION, fric |-> WALL_FRICTION,
                    drag |-> AIR_FRICTION, grav |-> TRUE]
            verts == compute_hexagon_vertices(cfg.center, Num(HEX_RADIUS), d.angle)
        IN  /\ v = "bg_ball" => d.after = 0
            /\ InitAt(v, cfg, d.angle, verts,
                      [pc |-> "free", pos |-> d.pos, vel |-> d.vel])

(***************************************************************************)
(* The loop body, one action per stage.                                    *)
(***************************************************************************)
\* The stage as it would be if a held ball were integrated as well.
FreeMotion_integrating_held_ball ==
    /\ pc = "free"
    /\ ~crashed
    /\ ticks < MaxTicks
    /\ LET held == IF dragging
                   THEN CHOOSE m \in MousePositions : TRUE
                   ELSE <<0, 0>>
           p0 == IF dragging THEN vector_add(held, offset) ELSE ball_pos
           v0 == IF dragging THEN <<0, 0>> ELSE ball_vel
           v1 == free_velocity(variant, v0, air_friction, gravity_on)
       IN  /\ ball_vel' = v1
           /\ ball_pos' = vector_add(p0, v1)
           /\ free_vel' = v1
           /\ free_pos' = vector_add(p0, v1)
    /\ tick_pos' = ball_pos
    /\ tick_vel' = ball_vel
    /\ tick_angle' = hex_angle
    /\ did_free' = ~dragging
    /\ pc' = "rotate"
    /\ UNCHANGED <<game, config, hex_angle, hex_vertices, edge_i, ticks, crashed,
                   pre_pos, pre_vel, last_hit, hits, dragging, offset, events,
                   rotated, call>>

\* "Update Physics": gravity, air friction, position (ball.py 109-117,
\* ball_game/ball.py 106-112, Ball.update of main.py).  In main.py a held
\* ball is put where the mouse is instead, with velocity zero (227-234).
FreeMotion ==
    /\ pc = "free"
    /\ ~crashed
    /\ ticks < MaxTicks
    /\ IF dragging
       THEN \E mouse_pos \in MousePositions :
              /\ ball_pos' = vector_add(mouse_pos, offset)
              /\ ball_vel' = <<0, 0>>
              /\ free_pos' = vector_add(mouse_pos, offset)
              /\ free_vel' = <<0, 0>>
       ELSE LET v1 == free_velocity(variant, ball_vel, air_friction, gravity_on)
            IN  /\ ball_vel' = v1
                /\ ball_pos' = vector_add(ball_pos, v1)
                /\ free_vel' = v1
                /\ free_pos' = vector_add(ball_pos, v1)
    /\ tick_pos' = ball_pos
    /\ tick_vel' = ball_vel
    /\ tick_angle' = hex_angle
    /\ did_free' = ~dragging
    /\ pc' = "rotate"
    /\ UNCHANGED <<game, config, hex_angle, hex_vertices, edge_i, ticks, crashed,
                   pre_pos, pre_vel, last_hit, hits, dragging, offset, events,
                   rotated, call>>

\* The rotation step as it would be with the vertex list taken before the
\* angle is advanced.
Rotate_stale_vertices ==
    /\ pc = "rotate"
    /\ hex_angle' = hex_angle + angular_velocity
    /\ hex_vertices' = compute_hexagon_vertices(hex_center, Num(HEX_RADIUS),
                                                hex_angle)
    /\ edge_i' = 0
    /\ hits' = 0
    /\ pc' = "collide"
    /\ rotated' = TRUE
    /\ UNCHANGED <<game, config, ball_pos, ball_vel, ticks, crashed, tick_pos, tick_vel,
                   free_pos, free_vel, pre_pos, pre_vel, did_free, last_hit,
                   dragging, offset, events, tick_angle, call>>

\* "Update hexagon rotation" and the vertex list of this tick.
Rotate ==
    /\ pc = "rotate"
    /\ hex_angle' = hex_angle + angular_velocity
    /\ hex_vertices' = compute_hexagon_vertices(hex_center, Num(HEX_RADIUS),
                                                hex_angle + angular_velocity)
    /\ edge_i' = 0
    /\ hits' = 0
    /\ pc' = "collide"
    /\ rotated' = TRUE
    /\ UNCHANGED <<game, config, ball_pos, ball_vel, ticks, crashed, tick_pos, tick_vel,
                   free_pos, free_vel, pre_pos, pre_vel, did_free, last_hit,
                   dragging, offset, events, tick_angle, call>>

\* The iteration as it would be on a snapshot of the ball taken before the
\* loop: every edge sees the ball as free motion left it.
CollideEdge_snapshot ==
    /\ pc = "collide"
    /\ LET a == edge_start(hex_vertices, edge_i)
           b == edge_end(hex_vertices, edge_i)
           r == edge_step(variant, free_pos, free_vel, a, b, hex_center,
                          angular_velocity, wall_friction, restitution)
       IN  /\ ball_pos' = IF r.hit THEN r.pos ELSE ball_pos
           /\ ball_vel' = IF r.hit THEN r.vel ELSE ball_vel
           /\ last_hit' = r.hit
           /\ hits' = IF r.hit THEN hits + 1 ELSE hits
           /\ crashed' = r.err
           /\ pc' = IF r.err THEN "crashed"
                    ELSE IF edge_i = 5 THEN "draw" ELSE "collide"
    /\ pre_pos' = ball_pos
    /\ pre_vel' = ball_vel
    /\ edge_i' = IF edge_i = 5 THEN 5 ELSE edge_i + 1
    /\ UNCHANGED <<game, config, hex_angle, hex_vertices, ticks, tick_pos, tick_vel,
                   free_pos, free_vel, did_free, dragging, offset, events,
                   tick_angle, rotated, call>>

\* One iteration of "for i in range(6)".
CollideEdge ==
    /\ pc = "collide"
    /\ LET a == edge_start(hex_vertices, edge_i)
           b == edge_end(hex_vertices, edge_i)
           r == edge_step(variant, ball_pos, ball_vel, a, b, hex_center,
                          angular_velocity, wall_friction, restitution)
       IN  /\ ball_pos' = r.pos
           /\ ball_vel' = r.vel
           /\ last_hit' = r.hit
           /\ hits' = IF r.hit THEN hits + 1 ELSE hits
           /\ crashed' = r.err
           /\ pc' = IF r.err THEN "crashed"
                    ELSE IF edge_i = 5 THEN "draw" ELSE "collide"
    /\ pre_pos' = ball_pos
    /\ pre_vel' = ball_vel
    /\ edge_i' = IF edge_i = 5 THEN 5 ELSE edge_i + 1
    /\ UNCHANGED <<game, config, hex_angle, hex_vertices, ticks, tick_pos, tick_vel,
                   free_pos, free_vel, did_free, dragging, offset, events,
                   tick_angle, rotated, call>>

\* The rest of the loop body: main.py wraps the ball around the screen;
\* drawing changes nothing.
EndTick ==
    /\ pc = "draw"
    /\ ball_pos' = IF variant = "main" THEN wrap_screen(ball_pos) ELSE ball_pos
    /\ ticks' = ticks + 1
    /\ did_free' = FALSE
    /\ rotated' = FALSE
    /\ pc' = "free"
    /\ UNCHANGED <<game, config, ball_vel, hex_angle, hex_vertices, edge_i, crashed,
                   tick_pos, tick_vel, free_pos, free_vel, pre_pos, pre_vel,
                   last_hit, hits, dragging, offset, events, tick_angle, call>>

Next == FreeMotion \/ Rotate \/ CollideEdge \/ EndTick

Spec == Init /\ [][Next]_vars

\* The demo scripts from the states of DemoStates.
SpecDemo == InitDemo /\ [][Next]_vars

(***************************************************************************)
(* Input events of ball_game/main.py, handled at the top of the loop body. *)
(***************************************************************************)
\* K_LEFT, K_RIGHT and K_d on the rotation speed (lines 197-207).
key_left(rotation_speed) == rotation_speed - 50

key_right(rotation_speed) == rotation_speed + 50

\* The d key as it would be with the speed kept non-negative.
key_d_nonnegative(rotation_speed) == Abs(rotation_speed)

key_d(rotation_speed) == -rotation_speed

\* The wheel adding 0.05 with no upper limit.
scroll_up_unlimited(elasticity) == elasticity + 500

\* Mouse wheel on the elasticity (lines 217-221).
scroll_up(elasticity) == Min(Num(1), elasticity + 500)

scroll_down(elasticity) == Max(5000, elasticity - 500)

\* Pixels a click may land on: the one under the ball's centre and the one 5
\* to its left and 3 below (inside the ball), and the one 20 to its right
\* (outside it).
ClickPositions(pos) ==
    LET px == <<Num(pos[1] \div Scale), Num(pos[2] \div Scale)>>
    IN  {px, vector_add(px, Vec(-5, 3)), vector_add(px, Vec(20, 0))}

\* The event record after one more event.
Handled(e) == [n |-> events.n + 1, last |-> e]

EventGuard ==
    /\ variant = "main"
    /\ pc = "free"
    /\ ~crashed
    /\ ticks < MaxTicks
    /\ events.n < MaxEvents

physics_state == <<ball_pos, ball_vel, hex_angle, hex_vertices, pc, edge_i,
                   ticks, crashed, tick_pos, tick_vel, free_pos, free_vel,
                   pre_pos, pre_vel, did_free, last_hit, hits, tick_angle, rotated>>

physics == <<physics_state, call>>

KeyLeft ==
    /\ EventGuard
    /\ angular_velocity' = key_left(angular_velocity)
    /\ events' = Handled("K_LEFT")
    /\ UNCHANGED <<game, variant, hex_center, restitution, wall_friction, air_friction,
                   gravity_on, physics, dragging, offset>>

KeyRight ==
    /\ EventGuard
    /\ angular_velocity' = key_right(angular_velocity)
    /\ events' = Handled("K_RIGHT")
    /\ UNCHANGED <<game, variant, hex_center, restitution, wall_friction, air_friction,
                   gravity_on, physics, dragging, offset>>

KeyD ==
    /\ EventGuard
    /\ angular_velocity' = key_d(angular_velocity)
    /\ events' = Handled("K_d")
    /\ UNCHANGED <<game, variant, hex_center, restitution, wall_friction, air_friction,
                   gravity_on, physics, dragging, offset>>

KeySpace ==
    /\ EventGuard
    /\ gravity_on' = ~gravity_on
    /\ events' = Handled("K_SPACE")
    /\ UNCHANGED <<game, variant, hex_center, angular_velocity, restitution,
                   wall_friction, air_friction, physics, dragging, offset>>

\* K_r: reset_simulation, Ball.reset(CENTER).
KeyR ==
    /\ EventGuard
    /\ ball_pos' = Vec(WIDTH \div 2, HEIGHT \div 2)
    /\ ball_vel' = Vec(3, -2)
    /\ events' = Handled("K_r")
    /\ UNCHANGED <<game, config, hex_angle, hex_vertices, pc, edge_i, ticks, crashed,
                   tick_pos, tick_vel, free_pos, free_vel, pre_pos, pre_vel,
                   did_free, last_hit, hits, tick_angle, rotated, call,
                   dragging, offset>>

\* MOUSEBUTTONDOWN, button 1: grab the ball when the click is inside it.
MouseDownLeft ==
    /\ EventGuard
    /\ \E mouse_pos \in ClickPositions(ball_pos) :
         IF vector_length(vector_sub(mouse_pos, ball_pos)) < Num(BALL_RADIUS)
         THEN /\ dragging' = TRUE
              /\ offset' = vector_sub(ball_pos, mouse_pos)
         ELSE UNCHANGED <<dragging, offset>>
    /\ events' = Handled("button 1 down")
    /\ UNCHANGED <<game, config, physics>>

\* MOUSEBUTTONUP, button 1.
MouseUpLeft ==
    /\ EventGuard
    /\ dragging' = FALSE
    /\ events' = Handled("button 1 up")
    /\ UNCHANGED <<game, config, physics, offset>>

\* MOUSEBUTTONDOWN, button 4.
ScrollUp ==
    /\ EventGuard
    /\ restitution' = scroll_up(restitution)
    /\ events' = Handled("button 4")
    /\ UNCHANGED <<game, variant, hex_center, angular_velocity, wall_friction,
                   air_friction, gravity_on, physics, dragging, offset>>

\* MOUSEBUTTONDOWN, button 5.
ScrollDown ==
    /\ EventGuard
    /\ restitution' = scroll_down(restitution)
    /\ events' = Handled("button 5")
    /\ UNCHANGED <<game, variant, hex_center, angular_velocity, wall_friction,
                   air_friction, gravity_on, physics, dragging, offset>>

\* Elasticities the wheel can have left: the limits and the constructor's.
ElasticityStarts == {5000, ELASTICITY, Num(1)}

\* main.py at the top of its loop, as constructed or after earlier wheel turns.
InitMain ==
    \E e \in ElasticityStarts :
      LET cfg == [center |-> Vec(WIDTH \div 2, HEIGHT \div 2), omega |-> ROTATION_SPEED,
                  rest |-> e, fric |-> FRICTION, drag |-> DRAG_COEFF, grav |-> TRUE]
          verts == compute_hexagon_vertices(cfg.center, Num(HEX_RADIUS), 0)
      IN  InitAt("main", cfg, 0, verts,
                 [pc |-> "free", pos |-> cfg.center, vel |-> Vec(3, -2)])

NextMain ==
    \/ KeyLeft \/ KeyRight \/ KeyD \/ KeySpace \/ KeyR
    \/ MouseDownLeft \/ MouseUpLeft \/ ScrollUp \/ ScrollDown
    \/ FreeMotion \/ Rotate \/ CollideEdge \/ EndTick

SpecMain == InitMain /\ [][NextMain]_vars

(***************************************************************************)
(* The functions and constructors called on their own, on chosen inputs.   *)
(***************************************************************************)
\* Ball.__init__(pos, radius) of main.py: every argument is stored as given.
Ball_init(pos, radius) ==
    [rejected |-> FALSE, pos |-> pos, radius |-> radius, vel |-> Vec(3, -2),
     acc |-> <<0, 0>>, elasticity |-> ELASTICITY]

\* Hexagon.__init__(center, radius) of main.py.
Hexagon_init(center, radius) ==
    [rejected |-> FALSE, center |-> center, radius |-> radius, rotation |-> 0,
     rotation_speed |-> ROTATION_SPEED]

\* Hexagon.update of main.py.
Hexagon_update(self) == [self EXCEPT !.rotation = @ + self.rotation_speed]

\* Hexagon.get_vertices as it would be if it advanced the rotation.
Hexagon_get_vertices_advancing(self) ==
    [vertices |-> compute_hexagon_vertices(self.center, self.radius, self.rotation),
     self |-> Hexagon_update(self)]

\* Hexagon.get_vertices of main.py: the list returned, and the object after
\* the call.
Hexagon_get_vertices(self) ==
    [vertices |-> compute_hexagon_vertices(self.center, self.radius, self.rotation),
     self |-> self]

\* Hexagon.get_vertices for a circumradius given in units of 1 / Scale^2, so
\* that a circumradius below the resolution of the positions can be given:
\* center + radius * cos(angle) is rounded to the grid of the positions, as
\* the float sum is rounded to the floats next to the centre's coordinate.
get_vertices(center, radius_fine, rotation) ==
    [i \in 1..6 |->
        LET angle == rotation + (i - 1) * (Pi \div 3)
        IN  <<center[1] + Mul(Mul(radius_fine, Cos(angle)), 1),
              center[2] + Mul(Mul(radius_fine, Sin(angle)), 1)>>]

\* handle_collision(ball, hexagon) from edge i on: the ball after the loop,
\* or raised when a normalize() met a zero vector.
RECURSIVE handle_collision_from(_, _, _, _, _, _, _)
handle_collision_from(i, pos, vel, vertices, center, rotation_speed, elasticity) ==
    IF i = 6
    THEN [pos |-> pos, vel |-> vel, raised |-> FALSE]
    ELSE LET r == edge_step_main(pos, vel, edge_start(vertices, i),
                                 edge_end(vertices, i), center, rotation_speed,
                                 elasticity)
         IN  IF r.err
             THEN [pos |-> pos, vel |-> vel, raised |-> TRUE]
             ELSE handle_collision_from(i + 1, r.pos, r.vel, vertices, center,
                                        rotation_speed, elasticity)

handle_collision(pos, vel, vertices, center, rotation_speed, elasticity) ==
    handle_collision_from(0, pos, vel, vertices, center, rotation_speed, elasticity)

\* Circumradii 0.00001 and 0.2, in units of 1 / Scale^2.
SmallRadii == {1000, 20000000}

QueryPoints == {Vec(x, y) : x \in {100, 103, 110}, y \in {200, 204, 230}}

QueryEnds == {Vec(100, 200), Vec(110, 200), Vec(103, 204)}

Radii == {Num(-5), 0, Num(15), Num(250)}

\* Each run makes one call, from the state the script starts in.
CallClosestPoint ==
    /\ call.op = "none"
    /\ \E p \in QueryPoints, a \in QueryEnds, b \in QueryEnds :
         call' = [op |-> "closest_point_on_segment", p |-> p, a |-> a, b |-> b,
                  closest |-> closest_point_on_segment(p, a, b)]
    /\ UNCHANGED <<game, config, physics_state, dragging, offset, events>>

CallPointLineDistance ==
    /\ call.op = "none"
    /\ \E p \in QueryPoints, a \in QueryEnds, b \in QueryEnds :
         LET r == point_line_distance(p, a, b)
         IN  call' = [op |-> "point_line_distance", p |-> p, a |-> a, b |-> b,
                      distance |-> r[1], closest |-> r[2]]
    /\ UNCHANGED <<game, config, physics_state, dragging, offset, events>>

\* handle_collision on a ball near the centre of a small hexagon.
CallHandleCollision ==
    /\ call.op = "none"
    /\ \E radius_fine \in SmallRadii, pos \in {Vec(400, 300), Vec(403, 299)} :
         LET center == Vec(400, 300)
             r == handle_collision(pos, Vec(3, -2), get_vertices(center, radius_fine, 0),
                                   center, ROTATION_SPEED, ELASTICITY)
         IN  call' = [op |-> "handle_collision", radius |-> radius_fine, pos |-> pos,
                      raised |-> r.raised, out |-> r.pos]
    /\ UNCHANGED <<game, config, physics_state, dragging, offset, events>>

ConstructBall ==
    /\ call.op = "none"
    /\ \E pos \in QueryEnds, radius \in Radii :
         call' = [op |-> "Ball", radius |-> radius, obj |-> Ball_init(pos, radius)]
    /\ UNCHANGED <<game, config, physics_state, dragging, offset, events>>

ConstructHexagon ==
    /\ call.op = "none"
    /\ \E center \in QueryEnds, radius \in Radii :
         call' = [op |-> "Hexagon", radius |-> radius,
                  obj |-> Hexagon_init(center, radius)]
    /\ UNCHANGED <<game, config, physics_state, dragging, offset, events>>

\* Hexagons a run of main.py may hold: the one constructed, its speed set by
\* the keys, after up to two updates.
Hexagons ==
    LET made == Hexagon_init(Vec(400, 300), Num(250))
        sped == {[made EXCEPT !.rotation_speed = w] :
                    w \in {ROTATION_SPEED, 0, key_d(ROTATION_SPEED), key_left(ROTATION_SPEED)}}
    IN  sped \cup {Hexagon_update(h) : h \in sped}
             \cup {Hexagon_update(Hexagon_update(h)) : h \in sped}

\* get_vertices called twice in a row on one hexagon.
CallGetVerticesTwice ==
    /\ call.op = "none"
    /\ \E h \in Hexagons :
         LET r1 == Hexagon_get_vertices(h)
             r2 == Hexagon_get_vertices(r1.self)
         IN  call' = [op |-> "get_vertices", before |-> h, first |-> r1.vertices,
                      between |-> r1.self, second |-> r2.vertices,
                      after |-> r2.self]
    /\ UNCHANGED <<game, config, physics_state, dragging, offset, events>>

InitCalls == InitMain /\ restitution = ELASTICITY

NextCalls ==
    \/ CallClosestPoint \/ CallPointLineDistance \/ CallHandleCollision
    \/ ConstructBall \/ ConstructHexagon \/ CallGetVerticesTwice

SpecCalls == InitCalls /\ [][NextCalls]_vars

(***************************************************************************)
(* The block breaker, ball_game/1.py.  The handlers and the game logic are *)
(* functions of the record g of the globals; the actions apply them.       *)
(***************************************************************************)
Game ==
    [lives |-> lives, paused |-> paused, game_over |-> game_over,
     start_time |-> start_time, final_time |-> final_time,
     high_speed_mode |-> high_speed_mode, ball_x |-> ball_x, ball_y |-> ball_y,
     ball_dx |-> ball_dx, ball_dy |-> ball_dy, paddle_x |-> paddle_x,
     bricks |-> bricks]

SetGame(g) ==
    /\ lives' = g.lives
    /\ paused' = g.paused
    /\ game_over' = g.game_over
    /\ start_time' = g.start_time
    /\ final_time' = g.final_time
    /\ high_speed_mode' = g.high_speed_mode
    /\ ball_x' = g.ball_x
    /\ ball_y' = g.ball_y
    /\ ball_dx' = g.ball_dx
    /\ ball_dy' = g.ball_dy
    /\ paddle_x' = g.paddle_x
    /\ bricks' = g.bricks

\* reset_ball_and_paddle(); choice is the sign random.choice picks.
reset_ball_and_paddle(g, choice) ==
    [g EXCEPT !.ball_x = WIDTH \div 2,
              !.ball_y = HEIGHT \div 2,
              !.ball_dx = choice * base_speed(g.high_speed_mode),
              !.ball_dy = -base_speed(g.high_speed_mode),
              !.paddle_x = WIDTH \div 2 - paddle_width \div 2]

\* reset_game() at time now.
reset_game(g, choice, now) ==
    LET g1 == [g EXCEPT !.lives = 3, !.game_over = FALSE, !.paused = FALSE,
                        !.final_time = None]
        g2 == reset_ball_and_paddle(g1, choice)
    IN  [g2 EXCEPT !.bricks = create_bricks, !.start_time = now]

\* The KEYDOWN branch of the event loop.
on_keydown(g, key, choice, now) ==
    LET g1 == IF key = "K_p" /\ ~g.game_over THEN [g EXCEPT !.paused = ~@] ELSE g
    IN  IF key = "K_r" /\ g1.game_over THEN reset_game(g1, choice, now) ELSE g1

\* The MOUSEBUTTONDOWN branch of the event loop: three tests in a row.
on_mousebuttondown(g, mouse_pos, choice, now) ==
    LET g1 == IF g.game_over /\ collidepoint(restart_button, mouse_pos[1], mouse_pos[2])
              THEN reset_game(g, choice, now)
              ELSE g
        g2 == IF ~g1.game_over /\ collidepoint(pause_button, mouse_pos[1], mouse_pos[2])
              THEN [g1 EXCEPT !.paused = ~@]
              ELSE g1
    IN  IF ~g2.game_over /\ collidepoint(speed_button, mouse_pos[1], mouse_pos[2])
        THEN LET mode == ~g2.high_speed_mode
             IN  [g2 EXCEPT !.high_speed_mode = mode,
                            !.ball_dx = update_ball_speed(@, mode),
                            !.ball_dy = update_ball_speed(@, mode)]
        ELSE g2

\* The final time as it would be if the end of the game did not record it.
record_final_time_never(t, now) == t

\* "Record final time only once when game is over".
record_final_time(t, now) == IF t = None THEN now ELSE t

\* The bottom branch as it would be with the reset taken at zero lives too.
lose_life_reset_at_zero(g, choice, now) ==
    LET g1 == [g EXCEPT !.lives = @ - 1]
    IN  IF g1.lives >= 0
        THEN reset_ball_and_paddle(g1, choice)
        ELSE [g1 EXCEPT !.game_over = TRUE,
                        !.final_time = record_final_time(@, now)]

\* "Collision with the bottom (missed by paddle)".
lose_life(g, choice, now) ==
    LET g1 == [g EXCEPT !.lives = @ - 1]
    IN  IF g1.lives > 0
        THEN reset_ball_and_paddle(g1, choice)
        ELSE [g1 EXCEPT !.game_over = TRUE,
                        !.final_time = record_final_time(@, now)]

\* The test as it would be if a paused game were updated.
logic_runs_while_paused(g) == ~g.game_over

\* "Only update game logic if not paused and not game over".
logic_runs(g) == ~g.paused /\ ~g.game_over

\* The game logic of one frame.
update_game(g, keys, mouse_x, choice, now) ==
    IF ~logic_runs(g)
    THEN g
    ELSE LET x == g.ball_x + g.ball_dx
             y == g.ball_y + g.ball_dy
             dx == IF x - ball_radius < 0 \/ x + ball_radius > WIDTH
                   THEN -g.ball_dx ELSE g.ball_dx
             dy == IF y - ball_radius < 0 THEN -g.ball_dy ELSE g.ball_dy
             g1 == [g EXCEPT !.paddle_x = move_paddle(@, keys, mouse_x),
                             !.ball_x = x, !.ball_y = y,
                             !.ball_dx = dx, !.ball_dy = dy]
             g2 == IF y + ball_radius > HEIGHT THEN lose_life(g1, choice, now) ELSE g1
             g3 == IF collidepoint(paddle_rect(g2.paddle_x), g2.ball_x,
                                   g2.ball_y + ball_radius)
                   THEN [g2 EXCEPT !.ball_dy = -@]
                   ELSE g2
             hit_index == collidelist(g3.ball_x, g3.ball_y, g3.bricks)
         IN  IF hit_index # 0
             THEN [g3 EXCEPT !.bricks = del(@, hit_index), !.ball_dy = -@]
             ELSE g3

\* The game over overlay subtracts start_time from final_time, which raises
\* TypeError when final_time is None.
draw_raises(g) == g.game_over /\ g.final_time = None

\* Inputs: keys, clicks on each button and on none, mouse columns, held keys.
GameKeys == {"K_p", "K_r", "K_a"}

GameClicks == {<<400, 375>>, <<730, 30>>, <<730, 80>>, <<100, 300>>}

GameMouseXs == {0, 400}

KeyStates ==
    {[left |-> TRUE, right |-> FALSE], [left |-> FALSE, right |-> TRUE]}

hexagon == <<config, physics, dragging, offset, events>>

GameGuard == ~game_crashed /\ frames < MaxFrames

GameKeyDown ==
    /\ GameGuard
    /\ game_events.n < MaxGameEvents
    /\ \E key \in GameKeys, choice \in {-1, 1} :
         /\ SetGame(on_keydown(Game, key, choice, get_ticks(frames)))
         /\ game_events' = [n |-> game_events.n + 1, last |-> key, at |-> <<0, 0>>]
    /\ UNCHANGED <<frames, game_crashed, hexagon>>

GameMouseDown ==
    /\ GameGuard
    /\ game_events.n < MaxGameEvents
    /\ \E mouse_pos \in GameClicks, choice \in {-1, 1} :
         /\ SetGame(on_mousebuttondown(Game, mouse_pos, choice, get_ticks(frames)))
         /\ game_events' = [n |-> game_events.n + 1, last |-> "MOUSEBUTTONDOWN",
                             at |-> mouse_pos]
    /\ UNCHANGED <<frames, game_crashed, hexagon>>

\* The rest of the loop body: game logic and drawing.
GameFrame ==
    /\ GameGuard
    /\ \E keys \in KeyStates, mouse_x \in GameMouseXs, choice \in {-1, 1} :
         LET g == update_game(Game, keys, mouse_x, choice, get_ticks(frames))
         IN  /\ SetGame(g)
             /\ game_crashed' = draw_raises(g)
    /\ frames' = frames + 1
    /\ UNCHANGED <<game_events, hexagon>>

\* Games in progress: the script's start, and the ball about to pass the
\* bottom with 1, 2 or 3 lives, above the paddle, below the bricks, at the
\* left wall, and below the top in a column cleared of bricks, each in
\* normal and in high speed mode.
GameStarts ==
    {game_start} \cup
    UNION {LET b == base_speed(mode)
               g == [game_start EXCEPT !.high_speed_mode = mode]
           IN  {[g EXCEPT !.lives = l, !.ball_x = 200, !.ball_y = 580,
                          !.ball_dx = b, !.ball_dy = b] : l \in 1..3}
               \cup
               {[g EXCEPT !.ball_x = 400, !.ball_y = 544, !.ball_dx = b, !.ball_dy = b],
                [g EXCEPT !.ball_x = 400, !.ball_y = 216, !.ball_dx = b, !.ball_dy = -b],
                [g EXCEPT !.ball_x = 14, !.ball_y = 300, !.ball_dx = -b, !.ball_dy = -b],
                [g EXCEPT !.ball_x = 430, !.ball_y = 14, !.ball_dx = b, !.ball_dy = -b,
                          !.bricks = SelectSeq(create_bricks,
                                               LAMBDA k : k[1] # 5 * brick_width)]}
           : mode \in BOOLEAN}

InitGame ==
    /\ \E g \in GameStarts : GameAt(g)
    /\ LET cfg == [center |-> Vec(WIDTH \div 2, HEIGHT \div 2), omega |-> ROTATION_SPEED,
                   rest |-> ELASTICITY, fric |-> FRICTION, drag |-> DRAG_COEFF,
                   grav |-> TRUE]
           verts == compute_hexagon_vertices(cfg.center, Num(HEX_RADIUS), 0)
       IN  HexagonAt("main", cfg, 0, verts,
                     [pc |-> "free", pos |-> cfg.center, vel |-> Vec(3, -2)])

NextGame == GameKeyDown \/ GameMouseDown \/ GameFrame

SpecGame == InitGame /\ [][NextGame]_vars

(***************************************************************************)
(* Observations used by the properties.  Equalities between computed       *)
(* numbers are taken up to Tol grid steps, the rounding of the grid.       *)
(***************************************************************************)
Tol == 100

Close(x, y) == Abs(x - y) <= Tol

CloseVec(a, b) == Close(a[1], b[1]) /\ Close(a[2], b[2])

\* An edge iteration has just run / has just responded.
AfterEdge == (pc = "collide" /\ edge_i > 0) \/ pc = "draw"

AfterHit == AfterEdge /\ last_hit

\* The edge of the latest iteration.
LastEdge == IF pc = "draw" THEN 5 ELSE edge_i - 1

EdgeA == hex_vertices[LastEdge + 1]

EdgeB == hex_vertices[((LastEdge + 1) % 6) + 1]

\* Closest point, distance and contact geometry before the response.
PreClosest == closest_point_on_segment(pre_pos, EdgeA, EdgeB)

PreDistVec == vector_sub(pre_pos, PreClosest)

PreDist == vector_length(PreDistVec)

\* Unit vector from the closest point toward the ball, (0, -1) when they coincide.
ContactNormal ==
    IF PreDist = 0 THEN <<0, -Scale>>
    ELSE vector_normalize(PreDistVec)

\* Unit normal of the edge, (-e.y, e.x) / |e|: it points into the hexagon.
EdgeInwardNormal ==
    LET e == vector_sub(EdgeB, EdgeA)
        len == Hypot(e[1], e[2])
    IN  <<Div(-e[2], len), Div(e[1], len)>>

\* Contact velocity of the wall: angular velocity * perpendicular(point - center).
WallW ==
    LET r == vector_sub(PreClosest, hex_center)
    IN  <<Mul(-r[2], angular_velocity), Mul(r[1], angular_velocity)>>

RelBefore == vector_sub(pre_vel, WallW)

RelAfter == vector_sub(ball_vel, WallW)

Displacement == vector_sub(ball_pos, pre_pos)

\* The displacement is d long and points along the unit vector n.
PushedAlong(n, d) ==
    /\ Close(vector_length(Displacement), d)
    /\ CloseVec(Displacement, <<Mul(n[1], d), Mul(n[2], d)>>)

\* The spec's adjusted relative velocity about n: normal part reversed and
\* scaled by restitution, tangential part scaled by the wall friction.
Adjusted(n) ==
    LET t == <<-n[2], n[1]>>
        vn == -Mul(restitution, Dot(RelBefore, n))
        vt == Mul(wall_friction, Dot(RelBefore, t))
    IN  <<Mul(n[1], vn) + Mul(t[1], vt), Mul(n[2], vn) + Mul(t[2], vt)>>

\* Distance from p to edge k of this tick's vertex list.
EdgeDistance(p, k) ==
    LET a == hex_vertices[k + 1]
        b == hex_vertices[((k + 1) % 6) + 1]
        c == closest_point_on_segment(p, a, b)
    IN  Hypot(p[1] - c[1], p[2] - c[2])

(***************************************************************************)
(* C1.  In a wall collision of ball.py or ball_game/ball.py the component  *)
(* of the relative velocity along the collision normal is reversed and     *)
(* scaled by the restitution; a ball hitting a static vertical wall head   *)
(* on with velocity (3, 0), restitution 0.8 and wall friction 1.0 leaves   *)
(* with velocity (-2.4, 0).                                                *)
(***************************************************************************)
C1_NormalReversedByRestitution ==
    (AfterHit /\ variant \in {"ball", "bg_ball"}) =>
        /\ Close(Dot(RelAfter, ContactNormal),
                 -Mul(restitution, Dot(RelBefore, ContactNormal)))
        /\ (/\ angular_velocity = 0
            /\ wall_friction = Num(1)
            /\ restitution = 8000
            /\ EdgeA[1] = EdgeB[1]
            /\ ContactNormal = <<-Scale, 0>>
            /\ pre_vel = <<30000, 0>>) => ball_vel = <<-24000, 0>>

(***************************************************************************)
(* C2.  After a collision with an edge has been resolved, the ball's       *)
(* centre is at least radius - 0.5 away from that edge, wherever the ball  *)
(* was when the collision was detected.                                    *)
(***************************************************************************)
C2_PushedClearOfEdge ==
    AfterHit => EdgeDistance(ball_pos, LastEdge) >= Num(BALL_RADIUS) - 5000

(***************************************************************************)
(* C3 as stated.  The response moves the ball by (radius - dist) + 0.5     *)
(* along the collision normal, in every script.                            *)
(***************************************************************************)
C3_PushIsPenetrationPlusHalf ==
    AfterHit =>
        PushedAlong(IF variant = "main" THEN EdgeInwardNormal ELSE ContactNormal,
                    Num(BALL_RADIUS) - PreDist + 5000)

(***************************************************************************)
(* C3 amended.  The response moves the ball along the normal it uses by    *)
(* (radius - dist) + 0.5 in ball.py and ball_game/ball.py and by exactly   *)
(* radius - dist in ball_game/main.py; an edge iteration that does not     *)
(* respond leaves the position alone.                                      *)
(***************************************************************************)
C3_PushAmount ==
    AfterEdge =>
        IF last_hit
        THEN IF variant = "main"
             THEN PushedAlong(EdgeInwardNormal, Num(BALL_RADIUS) - PreDist)
             ELSE PushedAlong(ContactNormal, Num(BALL_RADIUS) - PreDist + 5000)
        ELSE ball_pos = pre_pos

\* main.py has pushed an overlapping ball by exactly radius - dist.
C3_Witness ==
    /\ AfterHit
    /\ variant = "main"
    /\ PreDist > 0
    /\ vector_length(Displacement) = Num(BALL_RADIUS) - PreDist

(***************************************************************************)
(* C4.  After a collision (ball.py, main.py) the ball's velocity is the    *)
(* adjusted relative velocity (reflected, scaled by the restitution,       *)
(* tangentially damped) plus the unscaled contact velocity of the wall.    *)
(***************************************************************************)
C4_WallVelocityReaddedUnscaled ==
    (AfterHit /\ variant \in {"ball", "main"}) =>
        LET n == IF variant = "main" THEN EdgeInwardNormal ELSE ContactNormal
        IN  CloseVec(ball_vel, vector_add(Adjusted(n), WallW))

(***************************************************************************)
(* C5.  Wall friction (ball_game/ball.py, main.py) acts on the tangential  *)
(* component only: the tangential relative velocity after the collision is *)
(* the wall friction times the one before, and the normal component is the *)
(* reflected one.                                                          *)
(***************************************************************************)
C5_FrictionOnTangentOnly ==
    (AfterHit /\ variant \in {"bg_ball", "main"}) =>
        LET n == IF variant = "main" THEN EdgeInwardNormal ELSE ContactNormal
            t == <<-n[2], n[1]>>
        IN  /\ Close(Dot(RelAfter, t), Mul(wall_friction, Dot(RelBefore, t)))
            /\ Close(Dot(RelAfter, n), -Mul(restitution, Dot(RelBefore, n)))

\* Free motion has run in this tick and the edge loop has not yet moved the ball.
AfterFree == did_free /\ pc \in {"rotate", "collide", "draw"}

(***************************************************************************)
(* C6 as stated.  In every script the free-motion phase adds gravity (when *)
(* enabled), then multiplies the velocity by the drag coefficient, then    *)
(* advances the position: v' = (v + g) * drag, p' = p + v'.                *)
(***************************************************************************)
C6_GravityThenDrag ==
    AfterFree =>
        LET drag == IF variant = "main" THEN DRAG_COEFF ELSE air_friction
            g == IF gravity_on THEN GRAVITY ELSE 0
        IN  /\ free_vel = <<Mul(tick_vel[1], drag), Mul(tick_vel[2] + g, drag)>>
            /\ free_pos = vector_add(tick_pos, free_vel)

(***************************************************************************)
(* C6 amended.  ball.py and ball_game/ball.py add gravity and then apply   *)
(* the drag, v' = (v + g) * drag; ball_game/main.py applies the drag first *)
(* and then adds gravity undamped (when enabled), v' = v * drag + g.  In   *)
(* all three the drag is applied once and the position is advanced by the  *)
(* new velocity, p' = p + v'.                                              *)
(***************************************************************************)
C6_FreeMotionOrder ==
    AfterFree =>
        /\ free_vel =
              IF variant = "main"
              THEN <<Mul(tick_vel[1], DRAG_COEFF),
                     Mul(tick_vel[2], DRAG_COEFF) + (IF gravity_on THEN GRAVITY ELSE 0)>>
              ELSE <<Mul(tick_vel[1], air_friction),
                     Mul(tick_vel[2] + GRAVITY, air_friction)>>
        /\ free_pos = vector_add(tick_pos, free_vel)

\* main.py has run its free motion with gravity on and a moving ball.
C6_Witness ==
    /\ AfterFree
    /\ pc = "rotate"
    /\ variant = "main"
    /\ gravity_on
    /\ tick_vel = <<30000, -20000>>
    /\ ball_vel = <<29700, -14800>>

\* No edge of this tick's boundary is closer to p than the radius.
NoEdgeWithinRadius(p) == \A k \in 0..5 : EdgeDistance(p, k) >= Num(BALL_RADIUS)

(***************************************************************************)
(* C7.  When no edge is closer to the ball than the radius as the edge     *)
(* loop begins, the loop leaves position and velocity unchanged; if free   *)
(* motion ran in the tick, the ball is where one position update by the    *)
(* velocity after one application of gravity and drag put it.              *)
(***************************************************************************)
C7_NoCollisionTickIsFreeMotion ==
    (pc = "draw" /\ NoEdgeWithinRadius(free_pos)) =>
        /\ ball_pos = free_pos
        /\ ball_vel = free_vel
        /\ did_free =>
              /\ ball_pos = vector_add(tick_pos, ball_vel)
              /\ ball_vel = free_velocity(variant, tick_vel, air_friction, gravity_on)

\* A whole tick has run with the ball clear of every edge.
C7_Witness ==
    /\ pc = "draw"
    /\ did_free
    /\ NoEdgeWithinRadius(free_pos)
    /\ hits = 0
    /\ ball_pos # tick_pos

\* The scenario of C8: circumradius 250 about (250, 250), static boundary,
\* drag 0.995, the ball at the centre with velocity (5, 0), one tick run.
C8_ScenarioTick ==
    /\ pc = "draw"
    /\ did_free
    /\ variant \in {"ball", "bg_ball"}
    /\ hex_center = <<2500000, 2500000>>
    /\ angular_velocity = 0
    /\ air_friction = 9950
    /\ tick_pos = <<2500000, 2500000>>
    /\ tick_vel = <<50000, 0>>

(***************************************************************************)
(* C8 as stated.  In the scenario one tick yields velocity (4.975, 0.4975) *)
(* and position (254.975, 200.4975), and no collision is detected.         *)
(***************************************************************************)
C8_ScenarioAsStated ==
    C8_ScenarioTick =>
        /\ ball_vel = <<49750, 4975>>
        /\ ball_pos = <<2549750, 2004975>>
        /\ hits = 0
        /\ \A k \in 0..5 : EdgeDistance(ball_pos, k) > Num(BALL_RADIUS)

(***************************************************************************)
(* C8 amended.  In the scenario one tick yields velocity (4.975, 0.4975)   *)
(* and position (254.975, 250.4975), and no collision is detected: every   *)
(* edge is farther from the ball than the radius.                          *)
(***************************************************************************)
C8_Scenario ==
    C8_ScenarioTick =>
        /\ ball_vel = <<49750, 4975>>
        /\ ball_pos = <<2549750, 2504975>>
        /\ hits = 0
        /\ \A k \in 0..5 : EdgeDistance(ball_pos, k) > Num(BALL_RADIUS)

\* The scenario tick has run.
C8_Witness == C8_ScenarioTick /\ hex_angle = 0 /\ ball_pos[1] = 2549750

(***************************************************************************)
(* C9.  With a static boundary, restitution <= 1 and wall friction <= 1, a *)
(* collision response never leaves the ball with a larger speed along the  *)
(* collision normal than it had before.                                    *)
(***************************************************************************)
C9_NormalSpeedNotIncreased ==
    (/\ AfterHit
     /\ angular_velocity = 0
     /\ restitution <= Num(1)
     /\ wall_friction <= Num(1)) =>
        LET n == IF variant = "main" THEN EdgeInwardNormal ELSE ContactNormal
        IN  Abs(Dot(ball_vel, n)) <= Abs(Dot(pre_vel, n)) + Tol

(***************************************************************************)
(* C10 as stated.  In every script the normal of the response, along which *)
(* the ball is pushed, is the unit vector from the closest point on the    *)
(* edge toward the ball's centre, or (0, -1) when the two coincide.        *)
(***************************************************************************)
C10_NormalFromClosestPoint ==
    AfterHit =>
        CloseVec(Displacement,
                 vector_mul(ContactNormal, vector_length(Displacement)))

(***************************************************************************)
(* C10 amended.  In ball.py and ball_game/ball.py the normal is the unit   *)
(* vector from the closest point toward the ball's centre, or (0, -1) when *)
(* the two coincide; in ball_game/main.py it is the unit normal of the     *)
(* edge, perpendicular(p2 - p1) / |p2 - p1|, which points into the hexagon *)
(* whatever side the ball is on.  The ball is pushed along that normal and *)
(* the relative velocity is reflected about it.                            *)
(***************************************************************************)
C10_ResponseNormal ==
    AfterHit =>
        IF variant = "main"
        THEN /\ CloseVec(Displacement,
                         vector_mul(EdgeInwardNormal, vector_length(Displacement)))
             /\ ball_vel =
                   velocity_after_main(pre_vel, EdgeInwardNormal,
                       wall_tangent_at(PreClosest, hex_center),
                       main_wall_velocity(PreClosest, hex_center, angular_velocity),
                       restitution)
        ELSE /\ CloseVec(Displacement,
                         vector_mul(ContactNormal, vector_length(Displacement)))
             /\ Close(Dot(RelAfter, ContactNormal),
                      -Mul(IF variant = "bg_ball" THEN restitution ELSE Num(1),
                           Dot(RelBefore, ContactNormal)))

\* main.py has responded to a ball that had crossed the edge line: the
\* normal it used points away from the ball.
C10_Witness ==
    /\ AfterHit
    /\ variant = "main"
    /\ PreDist > 0
    /\ Dot(ContactNormal, EdgeInwardNormal) < 0 - 9000
    /\ Dot(Displacement, EdgeInwardNormal) > 0

\* Unit vector along the edge of the latest iteration.
EdgeTangent == vector_normalize(vector_sub(EdgeB, EdgeA))

(***************************************************************************)
(* C11.  With a rotating boundary, a ball at rest whose centre lies        *)
(* exactly on a wall point leaves the collision response with a velocity   *)
(* component along the wall that has moved from zero toward the wall's     *)
(* own tangential velocity at the contact, and not away from it.           *)
(***************************************************************************)
C11_DraggedTowardWallVelocity ==
    (/\ AfterHit
     /\ angular_velocity # 0
     /\ pre_vel = <<0, 0>>
     /\ PreDist = 0) =>
        LET wt == Dot(WallW, EdgeTangent)
            vt == Dot(ball_vel, EdgeTangent)
        IN  Abs(wt) > Tol => Abs(wt - vt) < Abs(wt) - Tol

\* Distance from p to the segment (a, b), a # b, by cases: to the endpoint a
\* when p projects before it, to b when p projects beyond it, and to the
\* line through them otherwise.
SegmentDistance(p, a, b) ==
    LET ab == vector_sub(b, a)
        ap == vector_sub(p, a)
        bp == vector_sub(p, b)
        len == vector_length(ab)
    IN  IF Dot(ap, ab) <= 0 THEN vector_length(ap)
        ELSE IF Dot(bp, ab) >= 0 THEN vector_length(bp)
        ELSE Abs(Div(Mul(ab[1], ap[2]) - Mul(ab[2], ap[1]), len))

(***************************************************************************)
(* C12.  An edge iteration responds if and only if the distance from the   *)
(* ball's centre to the closest point of the segment (projection clamped   *)
(* to the segment) is strictly less than the radius; an edge that does not *)
(* respond, as at a distance exactly equal to the radius, changes nothing. *)
(***************************************************************************)
C12_CollisionIffCloserThanRadius ==
    AfterEdge =>
        /\ last_hit <=> PreDist < Num(BALL_RADIUS)
        /\ last_hit => SegmentDistance(pre_pos, EdgeA, EdgeB) < Num(BALL_RADIUS) + Tol
        /\ ~last_hit => SegmentDistance(pre_pos, EdgeA, EdgeB) > Num(BALL_RADIUS) - Tol
        /\ ~last_hit => ball_pos = pre_pos /\ ball_vel = pre_vel

\* The ball was exactly one radius from the edge, and nothing changed.
C12_Witness ==
    /\ AfterEdge
    /\ ~last_hit
    /\ PreDist = Num(BALL_RADIUS)
    /\ pre_vel # <<0, 0>>

C14_ZeroLengthEdge ==
    (call.op \in {"closest_point_on_segment", "point_line_distance"}
        /\ call.a = call.b) =>
        /\ call.closest = call.a
        /\ call.op = "point_line_distance" =>
              call.distance = vector_length(vector_sub(call.p, call.a))

\* point_line_distance has been called on a zero-length edge 5 away from
\* the point.
C14_Witness ==
    /\ call.op = "point_line_distance"
    /\ call.a = call.b
    /\ call.p = Vec(100, 200)
    /\ call.closest = Vec(103, 204)
    /\ call.distance = Num(5)

\* Out-of-range configuration scalars of a constructor call.
OutOfRange(radius) == radius <= 0

(***************************************************************************)
(* C16.  Constructing a ball or a boundary with an out-of-range scalar (a  *)
(* negative or zero radius) is rejected at construction: the value is not  *)
(* accepted as is.                                                         *)
(***************************************************************************)
C16_OutOfRangeRejected ==
    (call.op \in {"Ball", "Hexagon"} /\ OutOfRange(call.radius)) =>
        /\ call.obj.rejected
        /\ call.obj.radius # call.radius

(***************************************************************************)
(* C15.  Under a valid configuration (ball radius > 0, circumradius > 0)   *)
(* a collision step never raises, wherever the ball is: no division by    *)
(* zero and no normalisation of a zero-length vector occurs.               *)
(***************************************************************************)
C15_CollisionStepNeverRaises ==
    /\ ~crashed
    /\ (call.op = "handle_collision" /\ call.radius > 0) => ~call.raised

(***************************************************************************)
(* C17.  The ball's elasticity stays between 0 and 1 in every reachable    *)
(* state of main.py: whatever wheel events arrive, each scroll-up adds     *)
(* 0.05 capped at 1.0 and each scroll-down subtracts 0.05 floored at 0.5,  *)
(* and nothing else changes it.                                            *)
(***************************************************************************)
C17_ElasticityClamped ==
    /\ [](0 <= restitution /\ restitution <= Num(1))
    /\ [][/\ ScrollUp =>
               restitution' = (IF restitution + 500 > Num(1) THEN Num(1)
                               ELSE restitution + 500)
          /\ ScrollDown =>
               restitution' = (IF restitution - 500 < 5000 THEN 5000
                               ELSE restitution - 500)
          /\ restitution' # restitution =>
               /\ events'.last \in {"button 4", "button 5"}
               /\ Abs(restitution' - restitution) = 500]_vars

\* The wheel was turned up with the elasticity already at its cap.
C17_Witness ==
    /\ variant = "main"
    /\ pc = "free"
    /\ events = [n |-> 1, last |-> "button 4"]
    /\ restitution = Num(1)

\* The ball after edges 0 .. n-1 of this tick's loop, each edge resolved on the
\* ball the edges before it left.
RECURSIVE AfterEdges(_)
AfterEdges(n) ==
    IF n = 0
    THEN [pos |-> free_pos, vel |-> free_vel, hit |-> FALSE, err |-> FALSE]
    ELSE LET s == AfterEdges(n - 1)
         IN  edge_step(variant, s.pos, s.vel, hex_vertices[n],
                       hex_vertices[(n % 6) + 1], hex_center, angular_velocity,
                       wall_friction, restitution)

\* C18: the edges of one tick are handled one by one in ascending index, each
\* tested and resolved on the position and velocity the earlier edges of that
\* tick left, never on a common snapshot taken before the loop.
C18_EdgesResolvedSequentially ==
    AfterEdge =>
        /\ pre_pos = AfterEdges(LastEdge).pos
        /\ pre_vel = AfterEdges(LastEdge).vel
        /\ ball_pos = AfterEdges(LastEdge + 1).pos
        /\ ball_vel = AfterEdges(LastEdge + 1).vel
        /\ last_hit = AfterEdges(LastEdge + 1).hit

\* Two edges overlapped the ball in one tick, and the later one was resolved on
\* a ball the earlier one had already moved.
C18_Witness ==
    /\ AfterHit
    /\ hits >= 2
    /\ pre_pos # free_pos
    /\ pre_vel # free_vel

\* The vertex list derived from the angle the tick's advance produced.
PostAdvanceVertices ==
    compute_hexagon_vertices(hex_center, Num(HEX_RADIUS),
                             tick_angle + angular_velocity)

\* C19: in every tick the rotation is advanced before the collision query: the
\* edges tested in tick T are those of the angle after T's advance, never
\* those of an earlier angle.
C19_RotationBeforeCollision ==
    /\ rotated => hex_angle = tick_angle + angular_velocity
    /\ rotated /\ pc \in {"collide", "draw"} => hex_vertices = PostAdvanceVertices
    /\ rotated /\ AfterEdge =>
          LET r == edge_step(variant, pre_pos, pre_vel,
                             PostAdvanceVertices[LastEdge + 1],
                             PostAdvanceVertices[((LastEdge + 1) % 6) + 1],
                             hex_center, angular_velocity, wall_friction,
                             restitution)
          IN  ball_pos = r.pos /\ ball_vel = r.vel /\ last_hit = r.hit

\* An edge was hit in a tick whose advance turned the hexagon.
C19_Witness ==
    /\ rotated
    /\ AfterHit
    /\ angular_velocity # 0
    /\ hex_angle # tick_angle
    /\ hex_vertices # compute_hexagon_vertices(hex_center, Num(HEX_RADIUS), tick_angle)

\* C20: each tick adds the angular velocity in force to the rotation angle
\* exactly once, whatever its value: the left and right keys change it by
\* 0.005 and the d key negates it, so it may be negative or zero; the angle is
\* advanced in ticks in which the ball is dragged too, and is never clamped.
C20_AngleAdvancedOncePerTick ==
    /\ [](rotated => hex_angle = tick_angle + angular_velocity)
    /\ [][/\ KeyLeft => angular_velocity' = angular_velocity - 50
          /\ KeyRight => angular_velocity' = angular_velocity + 50
          /\ KeyD => angular_velocity' = 0 - angular_velocity
          /\ pc = "rotate" => hex_angle' = hex_angle + angular_velocity
          /\ pc # "rotate" => hex_angle' = hex_angle
          /\ pc # "free" => angular_velocity' = angular_velocity
          /\ ticks' # ticks => /\ ticks' = ticks + 1
                               /\ rotated
                               /\ hex_angle' = tick_angle + angular_velocity]_vars

\* A tick in which the ball is dragged has turned the hexagon by an angular
\* velocity that the d key made negative.
C20_Witness ==
    /\ variant = "main"
    /\ dragging
    /\ rotated
    /\ pc = "draw"
    /\ events.last = "K_d"
    /\ angular_velocity = 0 - ROTATION_SPEED
    /\ hex_angle = tick_angle - ROTATION_SPEED

\* C21: in every tick in which dragging is active the ball is put at the mouse
\* position plus the grab offset with velocity zero, and gravity, drag and
\* the position update are skipped for that tick.
C21_DraggedBallFollowsMouse ==
    /\ [](dragging /\ pc = "rotate" =>
            /\ ball_vel = <<0, 0>>
            /\ \E mouse_pos \in MousePositions :
                  ball_pos = vector_add(mouse_pos, offset)
            /\ ~did_free)
    /\ [][pc = "free" /\ pc' = "rotate" =>
            IF dragging
            THEN /\ ball_vel' = <<0, 0>>
                 /\ \E mouse_pos \in MousePositions :
                       ball_pos' = vector_add(mouse_pos, offset)
            ELSE /\ ball_vel' = free_velocity_main(ball_vel, gravity_on)
                 /\ ball_pos' = vector_add(ball_pos, ball_vel')]_vars

\* A ball grabbed off its centre while moving has been put at the mouse in
\* this tick.
C21_Witness ==
    /\ variant = "main"
    /\ dragging
    /\ pc = "rotate"
    /\ offset # <<0, 0>>
    /\ tick_vel # <<0, 0>>
    /\ ball_pos # tick_pos
    /\ ball_vel = <<0, 0>>

StrictlyInside(p, verts) ==
    \A i \in 0..5 :
        LET a == verts[i + 1]
            b == verts[((i + 1) % 6) + 1]
        IN  Dot(vector_normalize(perpendicular(vector_sub(b, a))),
                vector_sub(p, a)) > 0

\* C23: in the spinning-hexagon demo (ball from (400,200) with velocity
\* (5,0), gravity 0.5, drag 0.995, radius 15, circumradius 250, 0.02 rad per
\* tick) the ball's centre is strictly inside the hexagon after every tick.
C23_BallStaysInside ==
    pc = "free" => StrictlyInside(ball_pos, hex_vertices)

\* The normal the response of the script works with: the edge's normal in
\* main.py, the direction from the closest point to the ball in the others.
ResponseNormal == IF variant = "main" THEN EdgeInwardNormal ELSE ContactNormal

\* C24: right after a collision response the ball's velocity relative to the
\* wall has a non-negative component along the collision normal, whatever
\* the velocity before was, one already directed away from the wall
\* included.
C24_SeparatingAfterResponse ==
    AfterHit => Dot(RelAfter, ResponseNormal) >= -Tol

\* The game's state as the properties see it.
BallSpeedOk ==
    /\ Abs(ball_dx) = (IF high_speed_mode THEN 6 ELSE 4)
    /\ Abs(ball_dy) = (IF high_speed_mode THEN 6 ELSE 4)

\* C25: in the block breaker lives is within 0..3 and game_over is true
\* exactly when lives is 0; a life is lost only when the ball passes the
\* bottom while the game runs, the game ends on the loss of the last life,
\* and lives returns to 3 only by a restart made while game_over.
C25_LivesAndGameOver ==
    /\ [](lives \in 0..3 /\ (game_over <=> lives = 0))
    /\ [][/\ lives' < lives =>
               /\ lives' = lives - 1
               /\ frames' = frames + 1
               /\ ~paused /\ ~game_over
               /\ ball_y + ball_dy + ball_radius > HEIGHT
               /\ game_over' <=> lives = 1
          /\ lives' > lives =>
               /\ lives' = 3
               /\ game_over /\ ~game_over'
               /\ frames' = frames
          /\ game_over' /\ ~game_over => lives' = 0 /\ lives = 1]_vars

\* The last life was lost in a frame and the game is over.
C25_Witness ==
    /\ game_over
    /\ lives = 0
    /\ frames > 0
    /\ ball_y + ball_radius > HEIGHT

\* C26: in the block breaker final_time is set in every state where
\* game_over is true, so the overlay's final_time - start_time is defined;
\* it is recorded once, when the game ends, and stays as it is until a
\* restart clears it.
C26_FinalTimeSetWhenOver ==
    /\ [](~game_crashed /\ (game_over => final_time # None))
    /\ [][final_time' # final_time =>
            \/ /\ final_time = None
               /\ ~game_over /\ game_over'
               /\ final_time' = get_ticks(frames)
            \/ /\ final_time' = None
               /\ game_over /\ ~game_over']_vars

\* The overlay has been drawn in frames after the one that ended the game,
\* from the time recorded then.
C26_Witness ==
    /\ game_over
    /\ ~game_crashed
    /\ final_time # None
    /\ get_ticks(frames) > final_time + 2 * FrameMs

\* C27: in the block breaker |ball_dx| = |ball_dy| = the base speed, 6 in
\* high speed mode and 4 otherwise, in every reachable state, whatever the
\* order of speed toggles, bounces, lost lives and restarts; a speed toggle
\* changes the sign of neither component.
C27_BallSpeedIsBaseSpeed ==
    /\ []BallSpeedOk
    /\ [][high_speed_mode' # high_speed_mode =>
            /\ Sgn(ball_dx') = Sgn(ball_dx)
            /\ Sgn(ball_dy') = Sgn(ball_dy)
            /\ Abs(ball_dx') # Abs(ball_dx)]_vars

\* The speed button has switched to high speed in a game in which the ball
\* bounced off a brick, and the ball moves at 6 in both directions.
C27_Witness ==
    /\ high_speed_mode
    /\ game_events.last = "MOUSEBUTTONDOWN"
    /\ collidepoint(speed_button, game_events.at[1], game_events.at[2])
    /\ frames > 0
    /\ ball_dx = 6
    /\ ball_dy = 6
    /\ lives = 3
    /\ Len(bricks) = Len(create_bricks) - 1
    /\ ball_y > 200

====
